---- MODULE Spec2Model ----
(***************************************************************************)
(* Model of oppsql (src/oppsql/__init__.py): get_vector with its nested    *)
(* helpers normalize_by / normalize_filter / normalize_variable, and       *)
(* get_unique_param.                                                       *)
(*                                                                         *)
(* Python values are tagged records [t, s, items]: t is the Python type    *)
(* name, s the text of a scalar as Python writes it (str(val)), items the  *)
(* elements of a list / tuple, or the key-value pairs of a dict.           *)
(***************************************************************************)
EXTENDS Integers, Sequences, FiniteSets, TLC

VARIABLES nb_in, nb_out, pc, args, by, variable, stmt, conn, df, outcome,
          runparam, up_args, up_out

vars == <<nb_in, nb_out, pc, args, by, variable, stmt, conn, df, outcome,
          runparam, up_args, up_out>>

gvVars == <<pc, args, by, variable, stmt, conn, df, outcome>>
nbVars == <<nb_in, nb_out>>
upVars == <<runparam, up_args, up_out>>

----------------------------------------------------------------------------
(* Bounds *)
\* longest filter list / tuple enumerated
MaxLen == 2
\* longest list of attribute names enumerated
MaxNames == 2
\* most rows of the runparam table enumerated
MaxParamRows == 3

----------------------------------------------------------------------------
(* Python values *)
Val(t, s, items) == [t |-> t, s |-> s, items |-> items]
PyInt(s) == Val("int", s, <<>>)
PyFloat(s) == Val("float", s, <<>>)
PyBool(s) == Val("bool", s, <<>>)
PyStr(s) == Val("str", s, <<>>)
PyNone == Val("NoneType", "None", <<>>)
PyList(items) == Val("list", "", items)
PyTuple(items) == Val("tuple", "", items)
PyPair(k, v) == Val("pair", "", <<k, v>>)
PyDict(pairs) == Val("dict", "", pairs)

SeqsUpTo(S, n) == UNION {[1..k -> S] : k \in 0..n}
Range(f) == {f[i] : i \in DOMAIN f}
IsInjective(f) == \A i, j \in DOMAIN f : f[i] = f[j] => i = j

AttrNames == {"nCars", "repetition"}
\* scalars written bare as a filter value
BareScalars == {PyInt("320"), PyFloat("1.5"), PyBool("True"), PyStr("1")}
\* scalars written inside a filter list or tuple
ListScalars == {PyInt("320"), PyStr("1"), PyStr("0")}
ScalarLists == {PyList(q) : q \in SeqsUpTo(ListScalars, MaxLen)}
ScalarTuples == {PyTuple(q) : q \in SeqsUpTo(ListScalars, MaxLen) \ {<<>>}}
OddFilters == {PyList(<<PyList(<<PyInt("320")>>)>>), PyList(<<PyInt("320"), PyNone>>),
               PyDict(<<>>), PyList(<<PyTuple(<<PyStr("1")>>)>>)}
FilterInputs == {PyNone} \cup BareScalars \cup ScalarLists \cup ScalarTuples \cup OddFilters

NameLists == {PyList(q) : q \in SeqsUpTo({PyStr(n) : n \in AttrNames}, MaxNames)}
KeySeqs == {q \in SeqsUpTo(AttrNames, 2) : IsInjective(q)}
DictsOver(F) ==
    {PyDict([i \in DOMAIN ks |-> PyPair(PyStr(ks[i]), fs[i])]) :
        <<ks, fs>> \in {p \in KeySeqs \X SeqsUpTo(F, 2) : Len(p[1]) = Len(p[2])}}
OddBys == {PyInt("5"), PyNone, PyList(<<PyInt("1")>>), PyList(<<PyStr("nCars"), PyInt("1")>>),
           PyTuple(<<PyStr("nCars")>>), PyDict(<<PyPair(PyInt("1"), PyNone)>>)}
ByInputs == {PyStr(n) : n \in AttrNames} \cup NameLists \cup DictsOver(FilterInputs) \cup OddBys

----------------------------------------------------------------------------
(* normalize_by and its nested normalize_filter (get_vector, lines 213-233) *)
valid_types == {"int", "float", "bool", "str"}

Returned(v) == [raised |-> "", value |-> v]
Raised(e) == [raised |-> e, value |-> <<>>]

FilterTypeError == "TypeError: Filter must be string, int, float or bool, a list of these or None"
ByTypeError == "TypeError: By must be string, list of strings or dictionary"

\* a slip that accepts every list without looking at its elements
normalize_filter_anylist(filter_) ==
    IF filter_.t = "NoneType" THEN Returned(<<>>)
    ELSE IF filter_.t \in valid_types THEN Returned(<<filter_>>)
    ELSE IF filter_.t = "list" THEN Returned(filter_.items)
    ELSE Raised(FilterTypeError)

normalize_filter(filter_) ==
    IF filter_.t = "NoneType" THEN Returned(<<>>)
    ELSE IF filter_.t \in valid_types THEN Returned(<<filter_>>)
    ELSE IF filter_.t = "list" /\ \A i \in DOMAIN filter_.items : filter_.items[i].t \in valid_types
         THEN Returned(filter_.items)
    ELSE Raised(FilterTypeError)

\* a slip that puts a new key in front of the older keys
DictSet_prepend(d, k, v) ==
    IF \E i \in DOMAIN d : d[i].attr = k
    THEN [i \in DOMAIN d |-> IF d[i].attr = k THEN [attr |-> k, vals |-> v] ELSE d[i]]
    ELSE <<[attr |-> k, vals |-> v]>> \o d

\* d[k] = v on an insertion-ordered dict held as a sequence of [attr, vals]
DictSet(d, k, v) ==
    IF \E i \in DOMAIN d : d[i].attr = k
    THEN [i \in DOMAIN d |-> IF d[i].attr = k THEN [attr |-> k, vals |-> v] ELSE d[i]]
    ELSE Append(d, [attr |-> k, vals |-> v])

RECURSIVE DictOfNames(_, _)
\* {attr: [] for attr in by}
DictOfNames(names, d) ==
    IF names = <<>> THEN d
    ELSE DictOfNames(Tail(names), DictSet(d, Head(names).s, <<>>))

RECURSIVE DictOfFilters(_, _)
\* {attr: normalize_filter(filter_) for attr, filter_ in by.items()}
DictOfFilters(pairs, d) ==
    IF pairs = <<>> THEN Returned(d)
    ELSE LET f == normalize_filter(Head(pairs).items[2])
         IN IF f.raised # "" THEN f
            ELSE DictOfFilters(Tail(pairs), DictSet(d, Head(pairs).items[1].s, f.value))

normalize_by(b) ==
    IF b.t = "str" THEN Returned(<<[attr |-> b.s, vals |-> <<>>]>>)
    ELSE IF b.t = "list" /\ \A i \in DOMAIN b.items : b.items[i].t = "str"
         THEN Returned(DictOfNames(b.items, <<>>))
    ELSE IF b.t = "dict" /\ \A i \in DOMAIN b.items : b.items[i].items[1].t = "str"
         THEN DictOfFilters(b.items, <<>>)
    ELSE Raised(ByTypeError)

----------------------------------------------------------------------------
(* The result store read by get_vector: the tables of the model module as   *)
(* the queries use them (runattr, vector joined with vectordata).           *)
RunAttr(r, n, v) == [runId |-> r, attrName |-> n, attrValue |-> v]
runattr ==
    {RunAttr("r1", "nCars", "160"), RunAttr("r1", "repetition", "0"),
     RunAttr("r2", "nCars", "320"), RunAttr("r2", "repetition", "0"),
     RunAttr("r3", "nCars", "320"), RunAttr("r3", "repetition", "1"),
     RunAttr("r4", "nCars", "320")}

Sample(i, r, n, v) == [rowId |-> i, runId |-> r, vectorName |-> n, value |-> v]
vectordata ==
    {Sample(1, "r1", "collisions", 150), Sample(2, "r1", "collisions", 161),
     Sample(3, "r2", "collisions", 484), Sample(4, "r2", "collisions", 589),
     Sample(5, "r2", "speed", 13),
     Sample(6, "r3", "collisions", 536), Sample(7, "r4", "collisions", 570)}

\* texts that int() parses, and texts that float() parses, among the stored ones
IntTexts == {"160", "320", "0", "1"}
FloatTexts == IntTexts \cup {"1.5"}
NULL == "NULL"
NaN == "NaN"

----------------------------------------------------------------------------
(* Arguments of get_vector *)
GVFilters ==
    {PyNone, PyInt("320"), PyStr("1"), PyBool("True"),
     PyList(<<>>), PyList(<<PyInt("320")>>), PyList(<<PyStr("1"), PyStr("0")>>),
     PyList(<<PyStr("1"), PyStr("1")>>), PyList(<<PyInt("320"), PyStr("1")>>),
     PyTuple(<<PyInt("320")>>), PyList(<<PyList(<<PyInt("320")>>)>>)}
GVBys == {PyStr(n) : n \in AttrNames} \cup NameLists \cup DictsOver(GVFilters)
            \cup {PyDict(<<PyPair(PyStr(n), f)>>) : n \in AttrNames, f \in FilterInputs}
            \cup {PyInt("5"), PyList(<<PyInt("1")>>)}
GVVariables ==
    {PyStr("collisions"), PyList(<<PyStr("collisions")>>),
     PyList(<<PyStr("collisions"), PyStr("speed")>>), PyInt("5"), PyList(<<PyInt("1")>>)}
\* filter_ : None, or the expression vectordata.value > 300
GVFilterExprs == {PyNone, PyInt("300")}
\* aggregate : None ("") or sqa.func.avg
GVAggregates == {"", "avg"}

NoArgs == [by |-> PyNone, variable |-> PyNone, time |-> FALSE, module |-> FALSE,
           filter_ |-> PyNone, aggregate |-> "", self_descriptive_result |-> FALSE]
NoStmt == [built |-> "none", select |-> <<>>, group_by |-> <<>>]
NoConn == [open |-> FALSE, opened |-> FALSE, executed |-> FALSE, functions |-> {}]
NoFrame == [columns |-> <<>>, nrows |-> 0]
UpNotCalled == [raised |-> "", value |-> PyNone]
NoUpArgs == [name |-> "", type |-> ""]

----------------------------------------------------------------------------
(* Helpers of get_vector *)

\* _map_python_value: bools become their lowercase text
_map_python_value(val) ==
    IF val.t = "bool" THEN PyStr(IF val.s = "True" THEN "true" ELSE "false") ELSE val

\* the text a bound value is compared as against the text column attrValue
DbText(val) == _map_python_value(val).s

normalize_variable(v) == IF v.t = "str" THEN PyList(<<v>>) ELSE v

HasLen(v) == v.t \in {"list", "tuple", "dict", "str"}
LenTypeError(v) == "TypeError: object of type '" \o v.t \o "' has no len()"

single_filter(b, i) == Len(b[i].vals) = 1

\* rows of the alias built for attribute i (attribute_filter_expression)
attribute_subquery(b, i) ==
    {ra \in runattr :
        /\ ra.attrName = b[i].attr
        /\ (b[i].vals # <<>> => ra.attrValue \in {DbText(b[i].vals[k]) : k \in DOMAIN b[i].vals})}

\* the elements of q at the indices in keep, in the order of q
KeepWhere(q, keep) ==
    LET F[i \in 0..Len(q)] == IF i = 0 THEN <<>>
                              ELSE IF i \in keep THEN Append(F[i - 1], q[i]) ELSE F[i - 1]
    IN F[Len(q)]

ByAttrs(b) == [i \in DOMAIN b |-> b[i].attr]

\* lines 260-263: the attribute columns that are selected
AttributeColumns(b, sdr) ==
    KeepWhere(ByAttrs(b), {i \in DOMAIN b : ~(Len(b[i].vals) = 1 /\ ~sdr)})

\* lines 271-274: the name the value column carries in the result
ValueColumn(aggregate) == IF aggregate # "" THEN aggregate \o "_1" ELSE "value"

\* lines 260-274
SelectList(b, v, a) ==
    AttributeColumns(b, a.self_descriptive_result)
      \o (IF a.time THEN <<"simtime">> ELSE <<>>)
      \o (IF a.module THEN <<"moduleName">> ELSE <<>>)
      \o (IF ~(Len(v.items) = 1 /\ ~a.self_descriptive_result) THEN <<"vectorName">> ELSE <<>>)
      \o <<ValueColumn(a.aggregate)>>

\* lines 288-291
GroupBy(b, aggregate) ==
    IF aggregate # ""
    THEN KeepWhere(ByAttrs(b), {i \in DOMAIN b : ~single_filter(b, i)})
    ELSE <<>>

----------------------------------------------------------------------------
(* Executing the statement (pd.read_sql, line 297) *)
AttrValueOf(r, n) == (CHOOSE ra \in runattr : ra.runId = r /\ ra.attrName = n).attrValue

\* rows of run |x| vector |x| vectordata |x| every attribute alias, under the constraints
MatchingSamples(b, v, a) ==
    {s \in vectordata :
        /\ s.vectorName \in {v.items[k].s : k \in DOMAIN v.items}
        /\ (a.filter_ # PyNone => s.value > 300)
        /\ \A i \in DOMAIN b : \E ra \in attribute_subquery(b, i) : ra.runId = s.runId}

GroupKey(s, g) == [k \in DOMAIN g |-> AttrValueOf(s.runId, g[k])]
Groups(b, v, a) == {GroupKey(s, GroupBy(b, a.aggregate)) : s \in MatchingSamples(b, v, a)}

ResultRows(b, v, a) ==
    IF a.aggregate = "" THEN Cardinality(MatchingSamples(b, v, a))
    ELSE IF GroupBy(b, a.aggregate) = <<>> THEN 1
    ELSE Cardinality(Groups(b, v, a))

\* the values an attribute column holds in the result
ColumnValues(b, v, a, n) ==
    IF a.aggregate # "" /\ GroupBy(b, a.aggregate) = <<>> /\ MatchingSamples(b, v, a) = {}
    THEN {NULL}
    ELSE {AttrValueOf(s.runId, n) : s \in MatchingSamples(b, v, a)}

ObjectDtype == [kind |-> "object", categories |-> <<>>, ordered |-> FALSE]
Column(n, d, vs) == [name |-> n, dtype |-> d, values |-> vs]

read_sql(st, b, v, a) ==
    [columns |-> [i \in DOMAIN st.select |->
                    Column(st.select[i], ObjectDtype,
                           IF st.select[i] \in Range(ByAttrs(b))
                           THEN ColumnValues(b, v, a, st.select[i]) ELSE {})],
     nrows |-> ResultRows(b, v, a)]

----------------------------------------------------------------------------
(* Casting the attribute columns (lines 298-300) *)
ColumnNames(frame) == [i \in DOMAIN frame.columns |-> frame.columns[i].name]
HasColumn(frame, n) == n \in Range(ColumnNames(frame))
ColumnOf(frame, n) == frame.columns[CHOOSE i \in DOMAIN frame.columns : frame.columns[i].name = n]

\* a slip that sorts the categories (here: the two-element lists come out reversed)
CategoricalDtype_reordered(vals) ==
    [kind |-> "category",
     categories |-> [i \in DOMAIN vals |-> vals[Len(vals) + 1 - i]],
     ordered |-> TRUE]

\* pd.api.types.CategoricalDtype(vals, ordered=True)
CategoricalDtype(vals) == [kind |-> "category", categories |-> vals, ordered |-> TRUE]

\* what casting one column raises ("" when it does not)
CastError(frame, attr, vals) ==
    IF ~HasColumn(frame, attr) THEN "KeyError: " \o attr
    ELSE IF vals = <<>> THEN "IndexError: list index out of range"
    ELSE IF vals[1].t = "str"
         THEN IF IsInjective(vals) THEN ""
              ELSE "ValueError: Categorical categories must be unique"
    ELSE IF vals[1].t = "int"
         THEN IF NULL \in ColumnOf(frame, attr).values THEN "TypeError: int() argument"
              ELSE IF ColumnOf(frame, attr).values \subseteq IntTexts THEN ""
              ELSE "ValueError: invalid literal for int()"
    ELSE IF vals[1].t = "float"
         THEN IF ColumnOf(frame, attr).values \subseteq (FloatTexts \cup {NULL}) THEN ""
              ELSE "ValueError: could not convert string to float"
    ELSE ""

CastColumn(col, vals) ==
    IF vals[1].t = "str"
    THEN Column(col.name, CategoricalDtype(vals),
                {IF PyStr(x) \in Range(vals) THEN x ELSE NaN : x \in col.values})
    ELSE Column(col.name, [kind |-> vals[1].t, categories |-> <<>>, ordered |-> FALSE],
                col.values)

\* the loop of lines 298-300 over the first k attributes of by
RECURSIVE CastLoop(_, _, _)
CastLoop(frame, b, k) ==
    IF k > Len(b) THEN [raised |-> "", value |-> frame]
    ELSE LET e == CastError(frame, b[k].attr, b[k].vals)
         IN IF e # "" THEN [raised |-> e, value |-> frame]
            ELSE CastLoop([frame EXCEPT !.columns =
                              [i \in DOMAIN frame.columns |->
                                  IF frame.columns[i].name = b[k].attr
                                  THEN CastColumn(frame.columns[i], b[k].vals)
                                  ELSE frame.columns[i]]],
                          b, k + 1)

----------------------------------------------------------------------------
(* get_vector, lines 118-302 *)
Init ==
    /\ pc = "idle" /\ args = NoArgs /\ by = <<>> /\ variable = PyNone
    /\ stmt = NoStmt /\ conn = NoConn /\ df = NoFrame /\ outcome = ""
    /\ nb_in = PyNone /\ nb_out = [raised |-> "", value |-> <<>>]
    /\ runparam = {} /\ up_args = NoUpArgs /\ up_out = UpNotCalled

Call ==
    /\ pc = "idle"
    /\ \E b \in GVBys, v \in GVVariables, t \in BOOLEAN, mo \in BOOLEAN,
          f \in GVFilterExprs, ag \in GVAggregates, sdr \in BOOLEAN :
          args' = [by |-> b, variable |-> v, time |-> t, module |-> mo,
                   filter_ |-> f, aggregate |-> ag, self_descriptive_result |-> sdr]
    /\ pc' = "normalize"
    /\ UNCHANGED <<by, variable, stmt, conn, df, outcome, nbVars, upVars>>

\* lines 252-253
Normalize ==
    /\ pc = "normalize"
    /\ LET r == normalize_by(args.by)
       IN IF r.raised # ""
          THEN /\ outcome' = r.raised
               /\ pc' = "raised"
               /\ UNCHANGED <<by, variable>>
          ELSE /\ by' = r.value
               /\ variable' = normalize_variable(args.variable)
               /\ pc' = "build"
               /\ UNCHANGED outcome
    /\ UNCHANGED <<args, stmt, conn, df, nbVars, upVars>>

\* lines 255-291: the attribute subqueries, the select list, the statement
Build ==
    /\ pc = "build"
    /\ IF ~HasLen(variable)
       THEN /\ stmt' = [NoStmt EXCEPT !.built = "subqueries"]
            /\ outcome' = LenTypeError(variable)
            /\ pc' = "raised"
       ELSE /\ stmt' = [built |-> "statement",
                        select |-> SelectList(by, variable, args),
                        group_by |-> GroupBy(by, args.aggregate)]
            /\ pc' = "connect"
            /\ UNCHANGED outcome
    /\ UNCHANGED <<args, by, variable, conn, df, nbVars, upVars>>

\* lines 293-295
Connect ==
    /\ pc = "connect"
    /\ conn' = [open |-> TRUE, opened |-> TRUE, executed |-> FALSE,
                functions |-> IF args.time THEN {"simtime"} ELSE {}]
    /\ pc' = "read_sql"
    /\ UNCHANGED <<args, by, variable, stmt, df, outcome, nbVars, upVars>>

\* line 297
ReadSql ==
    /\ pc = "read_sql"
    /\ df' = read_sql(stmt, by, variable, args)
    /\ conn' = [conn EXCEPT !.executed = TRUE]
    /\ pc' = "cast"
    /\ UNCHANGED <<args, by, variable, stmt, outcome, nbVars, upVars>>

\* lines 298-302; leaving the with block closes the connection either way
Cast ==
    /\ pc = "cast"
    /\ LET r == CastLoop(df, by, 1)
       IN /\ df' = r.value
          /\ outcome' = IF r.raised # "" THEN r.raised ELSE "table"
          /\ pc' = IF r.raised # "" THEN "raised" ELSE "done"
    /\ conn' = [conn EXCEPT !.open = FALSE]
    /\ UNCHANGED <<args, by, variable, stmt, nbVars, upVars>>

Next == Call \/ Normalize \/ Build \/ Connect \/ ReadSql \/ Cast
Spec == Init /\ [][Next]_vars

----------------------------------------------------------------------------
(* get_unique_param, lines 104-115 *)
ParamRow(r, n, v) == [runId |-> r, parName |-> n, parValue |-> v]
ParamNames == {"net.speed", "net.maxspeed", "net.size"}
ParamValues == {"10", "20"}
ParamRows == {ParamRow(r, n, v) : r \in {"r1", "r2"}, n \in ParamNames, v \in ParamValues}
\* a run stores one value per parameter
ParamTables ==
    {t \in SUBSET ParamRows :
        /\ Cardinality(t) <= MaxParamRows
        /\ \A x, y \in t : (x.runId = y.runId /\ x.parName = y.parName) => x = y}
QueryNames == {"speed", "size"}
QueryTypes == {"int", "float", "str"}

\* parName LIKE '%name': the names that end in the queried text
LikeSuffix(parName, name) ==
    \/ name = "speed" /\ parName \in {"net.speed", "net.maxspeed"}
    \/ name = "size" /\ parName = "net.size"

\* SELECT DISTINCT parValue ... WHERE parName LIKE '%name'
DistinctValues(table, name) == {row.parValue : row \in {x \in table : LikeSuffix(x.parName, name)}}

\* type(x) for the text (or None) that scalar() hands back
Coerce(type, x) ==
    IF x = NULL
    THEN IF type = "str" THEN Returned(PyStr("None"))
         ELSE Raised("TypeError: " \o type \o "() argument")
    ELSE IF type = "str" THEN Returned(PyStr(x))
    ELSE IF type = "int"
         THEN IF x \in IntTexts \cup {"10", "20"} THEN Returned(PyInt(x))
              ELSE Raised("ValueError: invalid literal for int()")
    ELSE IF x \in FloatTexts \cup {"10", "20"} THEN Returned(PyFloat(x \o ".0"))
         ELSE Raised("ValueError: could not convert string to float")

\* ResultProxy.scalar(): the first column of the first row, None without rows;
\* the rows of a DISTINCT query come in no promised order
ScalarResults(values) == IF values = {} THEN {NULL} ELSE values

ParamInit ==
    /\ runparam \in ParamTables
    /\ up_args = NoUpArgs /\ up_out = UpNotCalled
    /\ pc = "idle" /\ args = NoArgs /\ by = <<>> /\ variable = PyNone
    /\ stmt = NoStmt /\ conn = NoConn /\ df = NoFrame /\ outcome = ""
    /\ nb_in = PyNone /\ nb_out = [raised |-> "", value |-> <<>>]

get_unique_param ==
    /\ up_args = NoUpArgs
    /\ \E name \in QueryNames, type \in QueryTypes :
         /\ up_args' = [name |-> name, type |-> type]
         /\ \E x \in ScalarResults(DistinctValues(runparam, name)) :
               up_out' = Coerce(type, x)
    /\ UNCHANGED <<runparam, gvVars, nbVars>>

ParamNext == get_unique_param
ParamSpec == ParamInit /\ [][ParamNext]_vars

----------------------------------------------------------------------------
(* normalize_by applied to one enumerated argument *)
NotCalled == [raised |-> "", value |-> <<[attr |-> "", vals |-> <<>>]>>]

NormInit ==
    /\ nb_in \in ByInputs
    /\ nb_out = NotCalled
    /\ pc = "idle" /\ args = NoArgs /\ by = <<>> /\ variable = PyNone
    /\ stmt = NoStmt /\ conn = NoConn /\ df = NoFrame /\ outcome = ""
    /\ runparam = {} /\ up_args = NoUpArgs /\ up_out = UpNotCalled

NormalizeByCall ==
    /\ nb_out = NotCalled
    /\ nb_out' = normalize_by(nb_in)
    /\ UNCHANGED <<nb_in, gvVars, upVars>>

NormNext == NormalizeByCall
NormSpec == NormInit /\ [][NormNext]_vars

----------------------------------------------------------------------------
(* Properties of normalize_by (NormSpec) *)
Called == nb_out # NotCalled
OutKeys == [i \in DOMAIN nb_out.value |-> nb_out.value[i].attr]
FirstIndex(q, x) == CHOOSE i \in DOMAIN q : q[i] = x /\ \A j \in 1..(i - 1) : q[j] # x
AllOfType(items, types) == \A i \in DOMAIN items : items[i].t \in types
IsNameList(b) == b.t = "list" /\ AllOfType(b.items, {"str"})
IsNameDict(b) == b.t = "dict" /\ \A i \in DOMAIN b.items : b.items[i].items[1].t = "str"
InNames == [i \in DOMAIN nb_in.items |-> nb_in.items[i].s]
InKeys == [i \in DOMAIN nb_in.items |-> nb_in.items[i].items[1].s]
EmptyMapOf(n) == Returned(<<[attr |-> n, vals |-> <<>>]>>)

\* C6: the string n, the list [n] and the mapping {n: []} all normalize to the
\* grouping map {n: []}; a list of names gives one key per distinct name, and a
\* mapping one key per key, in the order the caller wrote them.
C6_ShapeEquivalence ==
    Called =>
      /\ \A n \in AttrNames :
            nb_in \in {PyStr(n), PyList(<<PyStr(n)>>), PyDict(<<PyPair(PyStr(n), PyList(<<>>))>>)}
               => nb_out = EmptyMapOf(n)
      /\ IsNameList(nb_in) =>
            /\ nb_out.raised = ""
            /\ IsInjective(OutKeys)
            /\ Range(OutKeys) = Range(InNames)
            /\ \A i, j \in DOMAIN OutKeys :
                  i < j => FirstIndex(InNames, OutKeys[i]) < FirstIndex(InNames, OutKeys[j])
            /\ \A i \in DOMAIN nb_out.value : nb_out.value[i].vals = <<>>
      /\ (IsNameDict(nb_in) /\ nb_out.raised = "") => OutKeys = InKeys

C6_Witness ==
    /\ Called
    /\ nb_in = PyList(<<PyStr("repetition"), PyStr("nCars")>>)
    /\ OutKeys = <<"repetition", "nCars">>

IsScalar(f) == f.t \in valid_types
IsSeqOfScalars(f) == f.t \in {"list", "tuple"} /\ AllOfType(f.items, valid_types)
OneKeyDict == nb_in.t = "dict" /\ Len(nb_in.items) = 1 /\ nb_in.items[1].items[1].t = "str"
TheFilter == nb_in.items[1].items[2]
TheVals == nb_out.value[1].vals

\* C7: in a mapping, None normalizes to the empty filter list, a bare scalar to
\* the one-element list holding it, and a list or a tuple of scalars to the
\* list of the same elements in the same order.
C7_FilterValueMapping ==
    (Called /\ OneKeyDict) =>
      /\ TheFilter = PyNone => (nb_out.raised = "" /\ TheVals = <<>>)
      /\ IsScalar(TheFilter) => (nb_out.raised = "" /\ TheVals = <<TheFilter>>)
      /\ IsSeqOfScalars(TheFilter) => (nb_out.raised = "" /\ TheVals = TheFilter.items)

\* C8 as written: every filter value whose type is outside int, float, bool
\* and string (a nested list, None) fails with the filter TypeError.
C8_AsWritten ==
    (Called /\ OneKeyDict /\ ~IsScalar(TheFilter)) =>
        nb_out = Raised(FilterTypeError)

AcceptedShape(f) == f = PyNone \/ IsScalar(f) \/ IsSeqOfScalars(f)

\* C8, amended: every filter value that is neither None, nor a scalar of type
\* int, float, bool or string, nor a list or tuple of such scalars (a nested
\* list, a dict) fails with the filter TypeError and no grouping map is returned.
C8_RejectsOtherShapes ==
    (Called /\ IsNameDict(nb_in)
       /\ \E i \in DOMAIN nb_in.items : ~AcceptedShape(nb_in.items[i].items[2]))
    => nb_out = Raised(FilterTypeError)

C8_Witness ==
    /\ Called
    /\ nb_in = PyDict(<<PyPair(PyStr("nCars"), PyList(<<PyList(<<PyInt("320")>>)>>))>>)
    /\ nb_out = Raised(FilterTypeError)

----------------------------------------------------------------------------
(* Properties of get_vector (Spec) *)
Finished == pc \in {"done", "raised"}
sdr == args.self_descriptive_result
NoOptions == /\ ~args.time /\ ~args.module /\ args.filter_ = PyNone
             /\ args.aggregate = "" /\ ~sdr

\* the shapes the documentation of get_vector accepts
DocFilter(f) == f = PyNone \/ IsScalar(f) \/ IsSeqOfScalars(f)
DocBy(b) ==
    \/ b.t = "str"
    \/ b.t \in {"list", "tuple"} /\ AllOfType(b.items, {"str"})
    \/ b.t = "dict" /\ \A i \in DOMAIN b.items :
          b.items[i].items[1].t = "str" /\ DocFilter(b.items[i].items[2])
DocVariable(v) == v.t = "str" \/ (v.t \in {"list", "tuple"} /\ AllOfType(v.items, {"str"}))

\* the filter list the caller gave for each name, read off the argument itself
GivenList(f) == IF f = PyNone THEN <<>> ELSE IF IsScalar(f) THEN <<f>> ELSE f.items
GivenDict == args.by.t = "dict" /\ DocBy(args.by)
             /\ \A i \in DOMAIN args.by.items : args.by.items[i].items[2].t # "tuple"
GivenAttr(i) == args.by.items[i].items[1].s
GivenVals(i) == GivenList(args.by.items[i].items[2])
GivenVariables == IF args.variable.t = "str" THEN <<args.variable.s>>
                  ELSE [k \in DOMAIN args.variable.items |-> args.variable.items[k].s]
LastColumn == ColumnNames(df)[Len(df.columns)]

ExampleBy == PyDict(<<PyPair(PyStr("nCars"), PyInt("320")), PyPair(PyStr("repetition"), PyNone)>>)

\* C1: a grouping attribute whose filter list has exactly one value is not a
\* column of the returned table when self_descriptive_result is false and is one
\* when it is true, and the call returns a table in both cases; the call with
\* by={'nCars': 320, 'repetition': None} returns the columns [repetition, collisions].
C1_AttributeElision ==
    (Finished /\ GivenDict /\ DocVariable(args.variable)) =>
      /\ \A i \in DOMAIN args.by.items :
            Len(GivenVals(i)) = 1 =>
               /\ outcome = "table"
               /\ HasColumn(df, GivenAttr(i)) <=> sdr
      /\ (args.by = ExampleBy /\ args.variable = PyStr("collisions") /\ NoOptions) =>
            /\ outcome = "table"
            /\ ColumnNames(df) = <<"repetition", "collisions">>

\* C2: with exactly one variable and self_descriptive_result false the result has
\* no vector-name column and its value column is named after the variable; with
\* two or more variables, or self_descriptive_result true, it has a vector-name column.
C2_VariableElision ==
    (pc = "done" /\ DocVariable(args.variable)) =>
      /\ (Len(GivenVariables) = 1 /\ ~sdr) =>
            /\ ~HasColumn(df, "vectorName")
            /\ LastColumn = GivenVariables[1]
      /\ (Len(GivenVariables) >= 2 \/ sdr) => HasColumn(df, "vectorName")

ExpectedGroupBy ==
    KeepWhere([i \in DOMAIN args.by.items |-> GivenAttr(i)],
              {i \in DOMAIN args.by.items : Len(GivenVals(i)) # 1})
ExpectedGroups ==
    {[k \in DOMAIN ExpectedGroupBy |-> AttrValueOf(s.runId, ExpectedGroupBy[k])] :
        s \in MatchingSamples(by, variable, args)}

\* C3: with an aggregate function the query groups by exactly the attributes
\* whose filter list does not have exactly one entry, and the call returns one
\* row per distinct combination of those attributes' values.
C3_AggregationGrouping ==
    (Finished /\ args.aggregate # "" /\ GivenDict /\ DocVariable(args.variable)) =>
      /\ stmt.group_by = ExpectedGroupBy
      /\ outcome = "table"
      /\ df.nrows = Cardinality(ExpectedGroups)

SamplesOf(attr, name) ==
    {s \in vectordata : s.vectorName = name
                          /\ \E ra \in runattr : ra.runId = s.runId /\ ra.attrName = attr}

\* C4: get_vector(engine, attr, variable) with no options, on a store holding a
\* matching sample, returns the table [attr, variable] with one row per matching
\* sample and every value of the attribute, and raises nothing.
C4_UnconstrainedAttribute ==
    (Finished /\ args.by.t = "str" /\ args.variable.t = "str" /\ NoOptions
       /\ SamplesOf(args.by.s, args.variable.s) # {}) =>
      /\ outcome = "table"
      /\ ColumnNames(df) = <<args.by.s, args.variable.s>>
      /\ df.nrows = Cardinality(SamplesOf(args.by.s, args.variable.s))
      /\ ColumnOf(df, args.by.s).values =
            {AttrValueOf(s.runId, args.by.s) : s \in SamplesOf(args.by.s, args.variable.s)}

\* C5: every grouping attribute column of the returned table whose filter list
\* starts with a string is an ordered categorical whose categories are the
\* caller's filter list in the caller's order; when the first element is not a
\* string the column has the native type of that first element.
C5_CategoryOrder ==
    (pc = "done" /\ args.by.t = "dict") =>
      \A i \in DOMAIN args.by.items :
        (HasColumn(df, GivenAttr(i)) /\ GivenVals(i) # <<>>) =>
           /\ GivenVals(i)[1].t = "str" =>
                 ColumnOf(df, GivenAttr(i)).dtype =
                    [kind |-> "category", categories |-> GivenVals(i), ordered |-> TRUE]
           /\ GivenVals(i)[1].t # "str" =>
                 ColumnOf(df, GivenAttr(i)).dtype.kind = GivenVals(i)[1].t

C5_Witness ==
    /\ pc = "done"
    /\ args.by = PyDict(<<PyPair(PyStr("repetition"), PyList(<<PyStr("1"), PyStr("0")>>))>>)
    /\ ColumnOf(df, "repetition").dtype.categories = <<PyStr("1"), PyStr("0")>>
    /\ ColumnOf(df, "repetition").values = {"0", "1"}

Malformed == ~DocBy(args.by) \/ ~DocVariable(args.variable)

\* C9: a call with a malformed by, variable or filter value raises the
\* invalid-specification error before any query is built, before a connection
\* is opened and before a query is executed.
C9_FailFast ==
    (pc # "idle" /\ Malformed) =>
      /\ stmt.built = "none"
      /\ ~conn.opened
      /\ ~conn.executed
      /\ Finished => outcome \in {ByTypeError, FilterTypeError}

----------------------------------------------------------------------------
(* Property of get_unique_param (ParamSpec) *)
UpCalled == up_args # NoUpArgs
StoredValues == DistinctValues(runparam, up_args.name)

\* C10: with exactly one distinct stored value get_unique_param returns it
\* coerced to the requested type; with two or more it raises the
\* multiple-results error instead of returning one of them.
C10_UniqueParam ==
    UpCalled =>
      /\ Cardinality(StoredValues) = 1 =>
            \E x \in StoredValues : up_out = Coerce(up_args.type, x)
      /\ Cardinality(StoredValues) >= 2 =>
            up_out.raised = "MultipleResultsFound"
====
